---- MODULE Spec2Model ----
(***************************************************************************)
(* iterable-io: a file-like reader over an iterable of bytes.              *)
(*                                                                         *)
(* RawIterableReader (an io.RawIOBase) and the open_iterable factory of    *)
(* iterableio.py, as a state machine.  The producer is an iterator whose   *)
(* successive next() calls are scripted: each call returns a chunk,        *)
(* raises StopIteration, or raises some other exception.                   *)
(*                                                                         *)
(* The adapter never looks at the value of a byte, it only counts, appends *)
(* and slices.  Every byte of the script therefore carries a distinct tag  *)
(* (the number of the next() call that produced it and its offset in the   *)
(* chunk), so that a lost, duplicated or reordered byte is visible.        *)
(***************************************************************************)
EXTENDS Integers, Sequences, FiniteSets, TLC

\* ------------------------------------------------------------------ bounds
MaxChunkLen == 2        \* longest chunk the producer yields
MaxItems == 3           \* scripted next() outcomes; afterwards StopIteration
MaxRead == 3            \* largest length a caller asks for
MaxModeLen == 3         \* longest mode string given to open_iterable
MaxBuffering == 2       \* largest buffering given to open_iterable
OpenItems == 1          \* scripted next() outcomes behind open_iterable
PairItems == 3      \* chunks of a producer read through two streams side by side
TextChars == 3      \* characters of a string read back through a text stream

Max(a, b) == IF a >= b THEN a ELSE b
Min(a, b) == IF a <= b THEN a ELSE b

\* ---------------------------------------------------------------- producer
STOP == -1              \* next() raises StopIteration
ERR == -2               \* next() raises any other exception

Items == (0..MaxChunkLen) \cup {STOP, ERR}
Scripts == UNION {[1..n -> Items] : n \in 0..MaxItems}

\* Python's None, for the two fields close() and exhaustion overwrite.
None == "None"          \* Python's None
NoIter == "None"
NoBuffer == <<-1>>

VARIABLES
    script,     \* the producer: outcome of its 1st, 2nd, ... next() call
    calls,      \* next() calls made on the producer so far
    iter,       \* RawIterableReader._iter: "iterator" or None
    buffer,     \* RawIterableReader._buffer: bytearray or None
    total,      \* RawIterableReader._total
    closed,     \* IOBase.closed of the raw adapter
    req,        \* the arguments open_iterable was called with
    error,      \* the ValueError open_iterable raised, or "none"
    stack,      \* the classes of the object returned, innermost first
    bufsize,    \* buffer_size of the io.BufferedReader layer
    rdbuf,      \* bytes the io.BufferedReader layer has read ahead
    decoded,    \* characters the io.TextIOWrapper layer has decoded ahead
    delivered,  \* what the caller's reads have returned so far, in order
    short,      \* a read has returned less than it asked for
    closeCalled,\* close() has been called
    last,       \* the last call made by the caller, its outcome, and the
                \* adapter and layers as they were when it was made (pre)
    ref,        \* a second, unbuffered RawIterableReader over an identical
                \* producer, given the same calls (when ref.on)
    source,     \* the string whose encoding the producer yields chunk by
                \* chunk, or NoSource: the chunks then carry tags
    decoder     \* io.TextIOWrapper's decoder: the bytes of an unfinished
                \* character and the carriage return it holds back

vars == <<script, calls, iter, buffer, total, closed, req, error, stack,
          bufsize, rdbuf, decoded, delivered, short, closeCalled, last, ref,
          source, decoder>>

\* Outcome of the c-th next() call.  A script that has run out keeps
\* raising StopIteration, as a finished generator does.
NextItem(c) == IF c <= Len(script) THEN script[c] ELSE STOP

\* No string given: the producer's bytes are tags that tell the chunk and
\* the place in it they come from.
NoSource == <<[chr |-> -1]>>

\* str.encode("utf-8"), for characters below U+0800: one byte, or a lead
\* byte and a continuation byte.
RECURSIVE Encode(_)
Encode(s) ==
    IF s = <<>> THEN <<>>
    ELSE (IF s[1].chr < 128 THEN <<s[1].chr>>
          ELSE <<192 + (s[1].chr \div 64), 128 + (s[1].chr % 64)>>)
         \o Encode(Tail(s))

\* The bytes yielded by the next() calls before the c-th.
RECURSIVE Offset(_)
Offset(c) == IF c <= 1 THEN 0 ELSE Offset(c - 1) + Max(NextItem(c - 1), 0)

\* The bytes of the chunk of length n returned by the c-th next() call.
Chunk(c, n) ==
    IF source = NoSource THEN [j \in 1..n |-> 20 * c + j]
    ELSE SubSeq(Encode(source), Offset(c) + 1, Offset(c) + n)

\* The adapter's fields and the producer's position, as one value.
Raw == [iter |-> iter, buffer |-> buffer, total |-> total,
        closed |-> closed, calls |-> calls, exc |-> "none"]

\* A constructor that fetches the first chunk ahead.
RawInitPrefetch == [iter |-> "iterator", buffer |-> Chunk(1, Max(NextItem(1), 0)),
                    total |-> Max(NextItem(1), 0), closed |-> FALSE, calls |-> 1,
                    exc |-> "none"]

\* __init__
RawInit == [iter |-> "iterator", buffer |-> <<>>, total |-> 0,
            closed |-> FALSE, calls |-> 0, exc |-> "none"]

\* A close() that drops the fields and leaves out super().close().
RawCloseFieldsOnly(r) == [r EXCEPT !.iter = NoIter, !.buffer = NoBuffer]

\* A close() that keeps the pending bytes.
RawCloseKeepsBuffer(r) == [r EXCEPT !.iter = NoIter, !.closed = TRUE]

\* close(): drop the iterator and the buffer, then IOBase.close().
RawClose(r) == [r EXCEPT !.iter = NoIter, !.buffer = NoBuffer, !.closed = TRUE]

\* A tell() that forgets the bytes still buffered.
TellValueTotal(r) == r.total

\* tell(), past its _checkClosed().
TellValue(r) == r.total - Len(r.buffer)

\* A loop condition that also pulls when the buffer holds exactly num bytes.
LoopCondInclusive(r, num) == Len(r.buffer) <= num

\* while len(self._buffer) < num
LoopCond(r, num) == Len(r.buffer) < num

\* An exhaustion handler that keeps the iterator.
OnStopKeep(r) == r

\* except StopIteration: self._iter = None; break
OnStop(r) == [r EXCEPT !.iter = NoIter]

\* A pull that puts the new chunk in front of what is pending.
OnChunkFront(r, new) == [r EXCEPT !.total = @ + Len(new), !.buffer = new \o @]

\* else: self._total += len(new); self._buffer += new
OnChunk(r, new) == [r EXCEPT !.total = @ + Len(new), !.buffer = @ \o new]

\* A pull loop that takes an empty chunk for the end of the producer.
RECURSIVE PullLoopEmptyEnds(_, _)
PullLoopEmptyEnds(r, num) ==
    IF ~LoopCond(r, num) THEN r
    ELSE LET c == r.calls + 1
             item == NextItem(c)
             r1 == [r EXCEPT !.calls = c]
         IN  IF item = STOP \/ item = 0 THEN OnStop(r1)
             ELSE IF item = ERR THEN [r1 EXCEPT !.exc = "producer"]
             ELSE PullLoopEmptyEnds(OnChunk(r1, Chunk(c, item)), num)

\* A pull loop with a bare except: any exception ends the producer.
RECURSIVE PullLoopBareExcept(_, _)
PullLoopBareExcept(r, num) ==
    IF ~LoopCond(r, num) THEN r
    ELSE LET c == r.calls + 1
             item == NextItem(c)
             r1 == [r EXCEPT !.calls = c]
         IN  IF item = STOP \/ item = ERR THEN OnStop(r1)
             ELSE PullLoopBareExcept(OnChunk(r1, Chunk(c, item)), num)

\* A pull loop that gives the iterator up when the producer raises.
RECURSIVE PullLoopErrorReleases(_, _)
PullLoopErrorReleases(r, num) ==
    IF ~LoopCond(r, num) THEN r
    ELSE LET c == r.calls + 1
             item == NextItem(c)
             r1 == [r EXCEPT !.calls = c]
         IN  IF item = STOP THEN OnStop(r1)
             ELSE IF item = ERR THEN [r1 EXCEPT !.exc = "producer", !.iter = NoIter]
             ELSE PullLoopErrorReleases(OnChunk(r1, Chunk(c, item)), num)

\* A pull loop that throws away what is pending when the producer raises.
RECURSIVE PullLoopErrorClears(_, _)
PullLoopErrorClears(r, num) ==
    IF ~LoopCond(r, num) THEN r
    ELSE LET c == r.calls + 1
             item == NextItem(c)
             r1 == [r EXCEPT !.calls = c]
         IN  IF item = STOP THEN OnStop(r1)
             ELSE IF item = ERR THEN [r1 EXCEPT !.exc = "producer", !.buffer = <<>>]
             ELSE PullLoopErrorClears(OnChunk(r1, Chunk(c, item)), num)

\* The pull loop of readinto.  Any exception other than StopIteration
\* leaves the loop and the call at once, with what was pulled kept.
RECURSIVE PullLoop(_, _)
PullLoop(r, num) ==
    IF ~LoopCond(r, num) THEN r
    ELSE LET c == r.calls + 1
             item == NextItem(c)
             r1 == [r EXCEPT !.calls = c]
         IN  IF item = STOP THEN OnStop(r1)
             ELSE IF item = ERR THEN [r1 EXCEPT !.exc = "producer"]
             ELSE PullLoop(OnChunk(r1, Chunk(c, item)), num)

\* A pull that fetches ahead: every read asks for one byte more than is
\* pending, whatever it was asked for.
PullAhead(r, num) ==
    IF r.iter # NoIter THEN PullLoop(r, Max(num, Len(r.buffer) + 1)) ELSE r

\* if self._iter is not None: <pull loop>
Pull(r, num) == IF r.iter # NoIter THEN PullLoop(r, num) ELSE r

\* A tail that copies the front of the buffer out and forgets to drop it.
DeliverKeep(r, num) ==
    LET num_buffered == Len(r.buffer)
    IN  IF num >= num_buffered
        THEN [raw |-> [r EXCEPT !.buffer = <<>>], out |-> r.buffer]
        ELSE [raw |-> r, out |-> SubSeq(r.buffer, 1, num)]

\* The tail of readinto: hand over min(num, len(buffer)) bytes from the
\* front of the buffer and drop them from it.
Deliver(r, num) ==
    LET num_buffered == Len(r.buffer)
    IN  IF num >= num_buffered
        THEN [raw |-> [r EXCEPT !.buffer = <<>>], out |-> r.buffer]
        ELSE [raw |-> [r EXCEPT !.buffer = SubSeq(@, num + 1, num_buffered)],
              out |-> SubSeq(r.buffer, 1, num)]

\* readinto(b) with len(b) = num: the adapter afterwards and the bytes
\* written to b.  exc is "closed" (ValueError of _checkClosed), "producer"
\* (the producer's own exception) or "none".
readinto(r, num) ==
    IF r.closed THEN [raw |-> [r EXCEPT !.exc = "closed"], out |-> <<>>]
    ELSE LET p == Pull(r, num)
         IN  IF p.exc # "none" THEN [raw |-> p, out |-> <<>>]
             ELSE Deliver(p, num)

\* tell()
tell(r) ==
    IF r.closed THEN [exc |-> "closed", ret |-> -1]
    ELSE [exc |-> "none", ret |-> TellValue(r)]

\* ------------------------------------------------------ io.BufferedReader
\* The layers open_iterable puts over the adapter are CPython's; they are
\* modelled by the raw reads they issue and what they keep of each.

\* io.RawIOBase.readall(), which RawIterableReader inherits: read(n) with
\* n = io.DEFAULT_BUFFER_SIZE until a read returns nothing; an exception
\* ends it with what it had collected lost.
RECURSIVE RawReadAll(_, _, _)
RawReadAll(r, n, out) ==
    LET res == readinto(r, n)
    IN  IF res.raw.exc # "none" THEN [raw |-> res.raw, out |-> <<>>]
        ELSE IF res.out = <<>> THEN [raw |-> res.raw, out |-> out]
        ELSE RawReadAll(res.raw, n, out \o res.out)

DEFAULT_BUFFER_SIZE == 8192     \* io.DEFAULT_BUFFER_SIZE
CHUNK_SIZE == 8192              \* TextIOWrapper's chunk size


\* The layers over the adapter and the adapter, as one value.
Layers == [raw |-> Raw, rdbuf |-> rdbuf, decoded |-> decoded, decoder |-> decoder]

\* read(n), first loop: whole blocks are read straight into the result.
\* done: the call returns (end of stream, or the raw read raised).
RECURSIVE BufDirect(_, _, _, _)
BufDirect(r, size, out, remaining) ==
    LET want == size * (remaining \div size)
    IN  IF remaining <= 0 \/ want = 0
        THEN [raw |-> r, out |-> out, remaining |-> remaining, done |-> FALSE]
        ELSE LET res == readinto(r, want)
             IN  IF res.raw.exc # "none"
                 THEN [raw |-> res.raw, out |-> <<>>, remaining |-> remaining,
                       done |-> TRUE]
                 ELSE IF Len(res.out) = 0
                 THEN [raw |-> res.raw, out |-> out, remaining |-> remaining,
                       done |-> TRUE]
                 ELSE BufDirect(res.raw, size, out \o res.out,
                                remaining - Len(res.out))

\* read(n), second loop: the rest comes through the internal buffer, which
\* is filled by raw reads of the room left in it; what the caller did not
\* ask for stays buffered.
RECURSIVE BufFill(_, _, _, _, _)
BufFill(r, size, out, remaining, end) ==
    IF ~(remaining > 0 /\ end < size)
    THEN [raw |-> r, out |-> out, rdbuf |-> <<>>]
    ELSE LET res == readinto(r, size - end)
             got == Len(res.out)
         IN  IF res.raw.exc # "none"
             THEN [raw |-> res.raw, out |-> <<>>, rdbuf |-> <<>>]
             ELSE IF got = 0
             THEN [raw |-> res.raw, out |-> out, rdbuf |-> <<>>]
             ELSE IF remaining > got
             THEN BufFill(res.raw, size, out \o res.out, remaining - got, end + got)
             ELSE [raw |-> res.raw, out |-> out \o SubSeq(res.out, 1, remaining),
                   rdbuf |-> SubSeq(res.out, remaining + 1, got)]

\* BufferedReader.read(n), n >= 0.
BufferedRead(L, size, n) ==
    IF L.raw.closed
    THEN [L EXCEPT !.raw.exc = "closed"] @@ [out |-> <<>>]
    ELSE IF n <= Len(L.rdbuf)
    THEN [L EXCEPT !.rdbuf = SubSeq(@, n + 1, Len(@))] @@ [out |-> SubSeq(L.rdbuf, 1, n)]
    ELSE LET d == BufDirect(L.raw, size, L.rdbuf, n - Len(L.rdbuf))
         IN  IF d.done
             THEN [L EXCEPT !.raw = d.raw, !.rdbuf = <<>>] @@ [out |-> d.out]
             ELSE LET f == BufFill(d.raw, size, d.out, d.remaining, 0)
                  IN  [L EXCEPT !.raw = f.raw, !.rdbuf = f.rdbuf] @@ [out |-> f.out]

\* BufferedReader.read1(n): what is buffered, or else one raw read of n.
BufferedRead1(L, n) ==
    IF L.raw.closed
    THEN [L EXCEPT !.raw.exc = "closed"] @@ [out |-> <<>>]
    ELSE IF n = 0 THEN L @@ [out |-> <<>>]
    ELSE IF Len(L.rdbuf) > 0
    THEN LET k == Min(n, Len(L.rdbuf))
         IN  [L EXCEPT !.rdbuf = SubSeq(@, k + 1, Len(@))] @@ [out |-> SubSeq(L.rdbuf, 1, k)]
    ELSE LET res == readinto(L.raw, n)
         IN  [L EXCEPT !.raw = res.raw] @@ [out |-> res.out]

\* BufferedReader.read() / read(-1): what is read ahead, then raw.readall();
\* the read-ahead is given up before the raw stream is read.
BufferedReadAll(L) ==
    IF L.raw.closed
    THEN [L EXCEPT !.raw.exc = "closed"] @@ [out |-> <<>>]
    ELSE LET a == RawReadAll(L.raw, DEFAULT_BUFFER_SIZE, <<>>)
         IN  [L EXCEPT !.raw = a.raw, !.rdbuf = <<>>]
                 @@ [out |-> IF a.raw.exc # "none" THEN <<>> ELSE L.rdbuf \o a.out]

\* BufferedReader.tell(): the raw position less what is read ahead.
BufferedTell(L) ==
    LET t == tell(L.raw)
    IN  IF t.exc # "none" THEN t
        ELSE [exc |-> "none", ret |-> t.ret - Len(L.rdbuf)]

\* ------------------------------------------------------- io.TextIOWrapper
\* Characters are kept apart from bytes: Chr(c) is the character of code
\* point c.
Chr(b) == [chr |-> b]
LF == Chr(10)
CR == Chr(13)

\* The newline argument: None (universal newlines, translated to "\n"),
\* "" (universal newlines, left as they are) or "LF" ("\n" only).
Universal == req.newline \in {None, ""}
Translating == req.newline = None

\* The decoder with nothing pending.
NoPending == [bytes |-> <<>>, cr |-> FALSE]

\* The utf-8 decoder on the bytes of characters below U+0800: the
\* characters that are complete, and the lead byte left at the end.
RECURSIVE Utf8Decode(_)
Utf8Decode(bs) ==
    IF bs = <<>> THEN [chars |-> <<>>, rest |-> <<>>]
    ELSE IF bs[1] < 128
    THEN LET t == Utf8Decode(Tail(bs))
         IN  [chars |-> <<Chr(bs[1])>> \o t.chars, rest |-> t.rest]
    ELSE IF Len(bs) = 1 THEN [chars |-> <<>>, rest |-> bs]
    ELSE LET t == Utf8Decode(SubSeq(bs, 3, Len(bs)))
         IN  [chars |-> <<Chr((bs[1] - 192) * 64 + (bs[2] - 128))>> \o t.chars,
              rest |-> t.rest]

\* output.replace("\r\n", "\n").replace("\r", "\n")
RECURSIVE TranslateNewlines(_)
TranslateNewlines(cs) ==
    IF cs = <<>> THEN <<>>
    ELSE IF cs[1] = CR /\ Len(cs) >= 2 /\ cs[2] = LF
    THEN <<LF>> \o TranslateNewlines(SubSeq(cs, 3, Len(cs)))
    ELSE <<IF cs[1] = CR THEN LF ELSE cs[1]>> \o TranslateNewlines(Tail(cs))

\* decoder.decode(bytes, final) in state d: the characters it returns and
\* its state afterwards.  With universal newlines the codec's decoder is
\* wrapped in io.IncrementalNewlineDecoder, which holds back a "\r" at the
\* end of its output until it has seen what follows.
NewlineDecode(d, u, final) ==
    LET given == Universal /\ d.cr /\ (u.chars # <<>> \/ final)
        o1 == IF given THEN <<CR>> \o u.chars ELSE u.chars
        hold == Universal /\ ~final /\ o1 # <<>> /\ o1[Len(o1)] = CR
        o2 == IF hold THEN SubSeq(o1, 1, Len(o1) - 1) ELSE o1
    IN  [chars |-> IF Translating THEN TranslateNewlines(o2) ELSE o2,
         state |-> [bytes |-> u.rest, cr |-> hold \/ (d.cr /\ ~given)]]

\* decoder.decode(bytes, final): the codec's decoder on the bytes left over
\* and the new ones, and the newline decoder on what it returns.
Decode(d, bytes, final) == NewlineDecode(d, Utf8Decode(d.bytes \o bytes), final)

\* One chunk read with read1 and decoded in place of the characters
\* decoded before; eof when the chunk is empty and the decoder had nothing
\* left to give.
DecodeChunk(L, c) ==
    IF c.raw.exc # "none"
    THEN [raw |-> c.raw, rdbuf |-> c.rdbuf, decoded |-> L.decoded,
          decoder |-> L.decoder, eof |-> FALSE]
    ELSE LET eof == c.out = <<>>
             d == Decode(L.decoder, c.out, eof)
         IN  [raw |-> c.raw, rdbuf |-> c.rdbuf, decoded |-> d.chars,
              decoder |-> d.state, eof |-> eof /\ d.chars = <<>>]

\* TextIOWrapper's read_chunk: one read1(hint) on the buffer, decoded.
ReadChunk(L, hint) == DecodeChunk(L, BufferedRead1(L, hint))

\* The layers in a result record, without what the call returned.
Kept(c) == [raw |-> c.raw, rdbuf |-> c.rdbuf, decoded |-> c.decoded,
            decoder |-> c.decoder]

\* read(n), the loop: chunks are read and decoded until n characters are
\* there or the end is met.
RECURSIVE TextLoop(_, _, _)
RECURSIVE TextTake(_, _, _)
TextLoop(L, out, remaining) ==
    IF remaining <= 0 THEN L @@ [out |-> out]
    ELSE TextTake(ReadChunk(L, Max(CHUNK_SIZE, remaining)), out, remaining)

\* read(n), the body of the loop past read_chunk: c is the chunk read.
TextTake(c, out, remaining) ==
    IF c.raw.exc # "none" THEN Kept(c) @@ [out |-> <<>>]
    ELSE IF c.eof THEN Kept(c) @@ [out |-> out]
    ELSE LET k == Min(remaining, Len(c.decoded))
         IN  TextLoop([Kept(c) EXCEPT !.decoded = SubSeq(@, k + 1, Len(@))],
                      out \o SubSeq(c.decoded, 1, k), remaining - k)

\* TextIOWrapper.read(n), n >= 0.
TextRead(L, n) ==
    IF L.raw.closed
    THEN [L EXCEPT !.raw.exc = "closed"] @@ [out |-> <<>>]
    ELSE LET k == Min(n, Len(L.decoded))
         IN  TextLoop([L EXCEPT !.decoded = SubSeq(@, k + 1, Len(@))],
                      SubSeq(L.decoded, 1, k), n - k)

\* TextIOWrapper.read() / read(-1): buffer.read(), decoded to the end,
\* behind the characters decoded ahead.
DecodeAll(L, b) ==
    IF b.raw.exc # "none"
    THEN [L EXCEPT !.raw = b.raw, !.rdbuf = b.rdbuf] @@ [out |-> <<>>]
    ELSE LET d == Decode(L.decoder, b.out, TRUE)
         IN  [raw |-> b.raw, rdbuf |-> b.rdbuf, decoded |-> <<>>,
              decoder |-> d.state] @@ [out |-> L.decoded \o d.chars]

\* TextIOWrapper.read() / read(-1).
TextReadAll(L) ==
    IF L.raw.closed
    THEN [L EXCEPT !.raw.exc = "closed"] @@ [out |-> <<>>]
    ELSE DecodeAll(L, BufferedReadAll(L))

\* Where the first line of cs ends: the place of its "\n", or with
\* untranslated universal newlines of its "\r", "\n" or "\r\n"; 0 when cs
\* holds no line ending.
LineEnd(cs) ==
    LET ends == {i \in 1..Len(cs) :
                    \/ cs[i] = LF
                    \/ Universal /\ ~Translating /\ cs[i] = CR}
        e == CHOOSE i \in ends : \A j \in ends : i <= j
    IN  IF ends = {} THEN 0
        ELSE IF cs[e] = CR /\ e < Len(cs) /\ cs[e + 1] = LF THEN e + 1
        ELSE e

\* readline(), the loop: line holds the characters put aside, which have
\* no line ending; chunks are read until one shows up or the end is met.
RECURSIVE LineLoop(_, _)
RECURSIVE LineMore(_, _)
LineLoop(L, line) ==
    LET all == line \o L.decoded
        e == LineEnd(all)
    IN  IF e > 0
        THEN [L EXCEPT !.decoded = SubSeq(all, e + 1, Len(all))]
                 @@ [out |-> SubSeq(all, 1, e)]
        ELSE LineMore(ReadChunk([L EXCEPT !.decoded = <<>>], CHUNK_SIZE), all)

\* readline(), the body of the loop past read_chunk: c is the chunk read,
\* all the characters put aside.
LineMore(c, all) ==
    IF c.raw.exc # "none" THEN Kept(c) @@ [out |-> <<>>]
    ELSE IF c.eof THEN Kept(c) @@ [out |-> all]
    ELSE LineLoop(Kept(c), all)

\* TextIOWrapper.readline(); next() on the stream is readline() with
\* StopIteration for the empty result.
TextReadLine(L) ==
    IF L.raw.closed
    THEN [L EXCEPT !.raw.exc = "closed"] @@ [out |-> <<>>]
    ELSE LineLoop(L, <<>>)

\* readlines(), and list(stream): the lines next() returns, up to its
\* StopIteration; an exception ends it with the lines lost.
RECURSIVE TextReadLines(_, _)
RECURSIVE LinesAdd(_, _)
TextReadLines(L, lines) == LinesAdd(TextReadLine(L), lines)

\* readlines(), the body of the loop: r is what next() gave and left.
LinesAdd(r, lines) ==
    IF r.raw.exc # "none" THEN Kept(r) @@ [out |-> <<>>]
    ELSE IF r.out = <<>> THEN Kept(r) @@ [out |-> lines]
    ELSE TextReadLines(Kept(r), Append(lines, r.out))

\* TextIOWrapper.tell(): the stream under it is not seekable.
TextTell(L) ==
    IF L.raw.closed THEN [exc |-> "closed", ret |-> -1]
    ELSE [exc |-> "unsupported", ret |-> -1]

\* ------------------------------------------------------------ open_iterable
ModeChars == {"r", "t", "b", "a"}
Modes == UNION {[1..n -> ModeChars] : n \in 0..MaxModeLen} \cup {<<"a", "b", "c">>}
Requests == [mode : Modes, buffering : (-1)..MaxBuffering,
             encoding : {None, "utf-8"}, errors : {None, "ignore"},
             newline : {None, "LF"}]

\* modes = set(mode)
modes(mode) == {mode[i] : i \in 1..Len(mode)}

reading(q) == "r" \in modes(q.mode)
binary(q) == "b" \in modes(q.mode)
text(q) == "t" \in modes(q.mode) \/ (reading(q) /\ ~binary(q))

\* The checks with the order of the second and third exchanged.
ValidateTextBinaryFirst(q) ==
    IF modes(q.mode) \ {"r", "t", "b"} # {} \/ Len(q.mode) > Cardinality(modes(q.mode))
    THEN "invalid mode"
    ELSE IF text(q) /\ binary(q) THEN "can't have text and binary mode at once"
    ELSE IF ~reading(q) THEN "Must specify read mode"
    ELSE IF binary(q) /\ q.encoding # None
    THEN "binary mode doesn't take an encoding argument"
    ELSE IF binary(q) /\ q.errors # None
    THEN "binary mode doesn't take an errors argument"
    ELSE IF binary(q) /\ q.newline # None
    THEN "binary mode doesn't take a newline argument"
    ELSE IF text(q) /\ q.buffering = 0 THEN "can't have unbuffered text I/O"
    ELSE "none"

\* The checks without the last one.
ValidateUnbufferedText(q) ==
    IF modes(q.mode) \ {"r", "t", "b"} # {} \/ Len(q.mode) > Cardinality(modes(q.mode))
    THEN "invalid mode"
    ELSE IF ~reading(q) THEN "Must specify read mode"
    ELSE IF text(q) /\ binary(q) THEN "can't have text and binary mode at once"
    ELSE IF binary(q) /\ q.encoding # None
    THEN "binary mode doesn't take an encoding argument"
    ELSE IF binary(q) /\ q.errors # None
    THEN "binary mode doesn't take an errors argument"
    ELSE IF binary(q) /\ q.newline # None
    THEN "binary mode doesn't take a newline argument"
    ELSE "none"

\* The checks of open_iterable in their order: the message of the
\* ValueError raised, "none" when every check passes.
Validate(q) ==
    IF modes(q.mode) \ {"r", "t", "b"} # {} \/ Len(q.mode) > Cardinality(modes(q.mode))
    THEN "invalid mode"
    ELSE IF ~reading(q) THEN "Must specify read mode"
    ELSE IF text(q) /\ binary(q) THEN "can't have text and binary mode at once"
    ELSE IF binary(q) /\ q.encoding # None
    THEN "binary mode doesn't take an encoding argument"
    ELSE IF binary(q) /\ q.errors # None
    THEN "binary mode doesn't take an errors argument"
    ELSE IF binary(q) /\ q.newline # None
    THEN "binary mode doesn't take a newline argument"
    ELSE IF text(q) /\ q.buffering = 0 THEN "can't have unbuffered text I/O"
    ELSE "none"

\* No adapter: what the caller holds when open_iterable raised.
NoRaw == [iter |-> NoIter, buffer |-> NoBuffer, total |-> 0,
          closed |-> FALSE, calls |-> 0, exc |-> "none"]

Opened(e, r, st, size) == [error |-> e, raw |-> r, stack |-> st, bufsize |-> size]

\* A composition that takes every buffering below 1 for unbuffered.
ComposeNoDefault(q) ==
    LET ret == RawInit
    IN  IF q.buffering <= 0
        THEN Opened("none", ret, <<"RawIterableReader">>, 0)
        ELSE IF binary(q)
        THEN Opened("none", ret, <<"RawIterableReader", "BufferedReader">>, q.buffering)
        ELSE Opened("none", ret,
                    <<"RawIterableReader", "BufferedReader", "TextIOWrapper">>, q.buffering)

\* Argument values that pass the checks of open_iterable and make a later
\* step of it raise.  BadInt stands for a buffering that is no number
\* ("bad int" in the tests): it equals no integer, and buffering < 0 raises
\* TypeError on it.  TooBig stands for an integer beyond what
\* io.BufferedReader accepts as buffer_size (2**63: OverflowError).  An
\* encoding "bogus" is unknown to io.TextIOWrapper (LookupError) and a
\* newline "x" illegal (ValueError); it looks at newline first.
BadInt == -1000
TooBig == 1000000
LayerErrors == {"TypeError", "OverflowError", "LookupError", "illegal newline value"}

\* A composition whose handler re-raises without closing anything.
ComposeLeaks(q) ==
    LET ret == RawInit
        buffering == IF q.buffering < 0 THEN DEFAULT_BUFFER_SIZE ELSE q.buffering
    IN  IF q.buffering = 0
        THEN Opened("none", ret, <<"RawIterableReader">>, 0)
        ELSE IF q.buffering = BadInt THEN Opened("TypeError", ret, <<>>, 0)
        ELSE IF buffering = TooBig THEN Opened("OverflowError", ret, <<>>, 0)
        ELSE IF binary(q)
        THEN Opened("none", ret, <<"RawIterableReader", "BufferedReader">>, buffering)
        ELSE IF q.newline = "x" THEN Opened("illegal newline value", ret, <<>>, 0)
        ELSE IF q.encoding = "bogus" THEN Opened("LookupError", ret, <<>>, 0)
        ELSE Opened("none", ret,
                    <<"RawIterableReader", "BufferedReader", "TextIOWrapper">>, buffering)

\* The layers put together once the arguments are valid.  Whatever is
\* raised on the way is caught, ret.close() is called and the exception
\* raised again: ret is the adapter, or the io.BufferedReader over it,
\* whose close() closes the adapter.
Compose(q) ==
    LET ret == RawInit
        buffering == IF q.buffering < 0 THEN DEFAULT_BUFFER_SIZE ELSE q.buffering
    IN  IF q.buffering = 0
        THEN Opened("none", ret, <<"RawIterableReader">>, 0)
        ELSE IF q.buffering = BadInt THEN Opened("TypeError", RawClose(ret), <<>>, 0)
        ELSE IF buffering = TooBig THEN Opened("OverflowError", RawClose(ret), <<>>, 0)
        ELSE IF binary(q)
        THEN Opened("none", ret, <<"RawIterableReader", "BufferedReader">>, buffering)
        ELSE IF q.newline = "x"
        THEN Opened("illegal newline value", RawClose(ret), <<>>, 0)
        ELSE IF q.encoding = "bogus" THEN Opened("LookupError", RawClose(ret), <<>>, 0)
        ELSE Opened("none", ret,
                    <<"RawIterableReader", "BufferedReader", "TextIOWrapper">>, buffering)

open_iterable(q) ==
    IF Validate(q) # "none" THEN Opened(Validate(q), NoRaw, <<>>, 0)
    ELSE Compose(q)

\* ------------------------------------------------------------ the machine
Top == stack[Len(stack)]

Call(op, num, out, ret, exc, pulls) ==
    [op |-> op, num |-> num, out |-> out, ret |-> ret, exc |-> exc,
     pulls |-> pulls, afterShort |-> short, wasClosed |-> closed,
     pre |-> Layers, lines |-> <<>>]

SetRaw(r) ==
    /\ iter' = r.iter
    /\ buffer' = r.buffer
    /\ total' = r.total
    /\ closed' = r.closed
    /\ calls' = r.calls

\* The reference adapter: absent, or as constructed.
NoRef == [on |-> FALSE, raw |-> NoRaw, out |-> <<>>, ret |-> 0, exc |-> "none"]
NewRef == [on |-> TRUE, raw |-> RawInit, out |-> <<>>, ret |-> 0, exc |-> "none"]

\* The same calls made on the reference adapter: read(num), read(), tell(),
\* close().
RefRead(num) ==
    IF ~ref.on THEN ref
    ELSE LET res == readinto(ref.raw, num)
         IN  [ref EXCEPT !.raw = [res.raw EXCEPT !.exc = "none"],
                         !.out = res.out, !.exc = res.raw.exc,
                         !.ret = IF res.raw.exc = "none" THEN Len(res.out) ELSE -1]

RefReadAll ==
    IF ~ref.on THEN ref
    ELSE LET res == IF ref.raw.closed
                    THEN [raw |-> [ref.raw EXCEPT !.exc = "closed"], out |-> <<>>]
                    ELSE RawReadAll(ref.raw, DEFAULT_BUFFER_SIZE, <<>>)
         IN  [ref EXCEPT !.raw = [res.raw EXCEPT !.exc = "none"],
                         !.out = res.out, !.exc = res.raw.exc,
                         !.ret = IF res.raw.exc = "none" THEN Len(res.out) ELSE -1]

RefTell ==
    IF ~ref.on THEN ref
    ELSE [ref EXCEPT !.out = <<>>, !.exc = tell(ref.raw).exc, !.ret = tell(ref.raw).ret]

RefClose ==
    IF ~ref.on THEN ref
    ELSE [ref EXCEPT !.raw = RawClose(@), !.out = <<>>, !.exc = "none", !.ret = 0]

Fresh ==
    /\ rdbuf = <<>>
    /\ decoded = <<>>
    /\ delivered = <<>>
    /\ decoder = NoPending
    /\ short = FALSE
    /\ closeCalled = FALSE

\* RawIterableReader(iterable): iter(iterable) asks the producer nothing.
Init ==
    /\ script \in Scripts
    /\ calls = RawInit.calls
    /\ iter = RawInit.iter
    /\ buffer = RawInit.buffer
    /\ total = RawInit.total
    /\ closed = RawInit.closed
    /\ req = [mode |-> <<>>, buffering |-> 0, encoding |-> None,
              errors |-> None, newline |-> None]
    /\ error = "none"
    /\ stack = <<"RawIterableReader">>
    /\ bufsize = 0
    /\ Fresh
    /\ ref = NoRef
    /\ source = NoSource
    /\ last = [op |-> "init", num |-> 0, out |-> <<>>, ret |-> 0, exc |-> "none",
               pulls |-> 0, afterShort |-> FALSE, wasClosed |-> FALSE,
               pre |-> [raw |-> RawInit, rdbuf |-> <<>>, decoded |-> <<>>,
                       decoder |-> NoPending],
               lines |-> <<>>]

\* open_iterable(iterable, mode, buffering, encoding, errors, newline)
OpenFrom(requests, scripts) ==
    /\ script \in scripts
    /\ req \in requests
    /\ LET o == open_iterable(req)
       IN  /\ calls = o.raw.calls
           /\ iter = o.raw.iter
           /\ buffer = o.raw.buffer
           /\ total = o.raw.total
           /\ closed = o.raw.closed
           /\ error = o.error
           /\ stack = o.stack
           /\ bufsize = o.bufsize
           /\ last = [op |-> "open", num |-> 0, out |-> <<>>, ret |-> 0,
                      exc |-> IF o.error = "none" THEN "none"
                              ELSE IF o.error \in LayerErrors THEN "layer"
                              ELSE "config",
                      pulls |-> o.raw.calls, afterShort |-> FALSE,
                      wasClosed |-> FALSE,
                      pre |-> [raw |-> o.raw, rdbuf |-> <<>>, decoded |-> <<>>,
                              decoder |-> NoPending],
                      lines |-> <<>>]
    /\ Fresh

OpenScripts == UNION {[1..n -> Items] : n \in 0..OpenItems}

InitOpen == source = NoSource /\ OpenFrom(Requests, OpenScripts) /\ ref = NoRef

\* Calls of open_iterable with a read mode and arguments that may make the
\* construction of a layer fail.
LayerRequests == [mode : {<<"r">>, <<"r", "b">>, <<"r", "t">>},
                  buffering : ((-1)..MaxBuffering) \cup {BadInt, TooBig},
                  encoding : {None, "utf-8", "bogus"}, errors : {None},
                  newline : {None, "LF", "x"}]

InitLayers ==
    source = NoSource /\ OpenFrom(LayerRequests, OpenScripts) /\ ref = NoRef

\* Streams opened in binary mode with a buffer of the default or of a
\* given size, over a producer that yields its chunks and stops, each
\* beside an unbuffered adapter over an identical producer.
PairRequests == [mode : {<<"r", "b">>}, buffering : {-1} \cup 1..MaxBuffering,
                 encoding : {None}, errors : {None}, newline : {None}]

PairScripts == UNION {[1..n -> 0..MaxChunkLen] : n \in 0..PairItems}

InitPair == source = NoSource /\ OpenFrom(PairRequests, PairScripts) /\ ref = NewRef

\* read(num) on the object the caller holds.  On the bare adapter it is
\* io.RawIOBase.read: readinto a fresh bytearray(num), cut to the count
\* returned.
StreamRead(num) ==
    IF Top = "TextIOWrapper" THEN TextRead(Layers, num)
    ELSE IF Top = "BufferedReader" THEN BufferedRead(Layers, bufsize, num)
    ELSE LET res == readinto(Raw, num)
         IN  [raw |-> res.raw, rdbuf |-> rdbuf, decoded |-> decoded,
              decoder |-> decoder, out |-> res.out]

\* read() / read(-1) on the object the caller holds.
StreamReadAll ==
    IF Top = "TextIOWrapper" THEN TextReadAll(Layers)
    ELSE IF Top = "BufferedReader" THEN BufferedReadAll(Layers)
    ELSE LET res == IF closed
                    THEN [raw |-> [Raw EXCEPT !.exc = "closed"], out |-> <<>>]
                    ELSE RawReadAll(Raw, DEFAULT_BUFFER_SIZE, <<>>)
         IN  [raw |-> res.raw, rdbuf |-> rdbuf, decoded |-> decoded,
              decoder |-> decoder, out |-> res.out]

StreamTell ==
    IF Top = "TextIOWrapper" THEN TextTell(Layers)
    ELSE IF Top = "BufferedReader" THEN BufferedTell(Layers)
    ELSE tell(Raw)

\* Concatenation of the sequences in ls.
RECURSIVE Join(_)
Join(ls) == IF ls = <<>> THEN <<>> ELSE ls[1] \o Join(Tail(ls))

\* A read call returns res: the layers and the adapter are as the call
\* left them, the caller has what it returned, and the call is on record.
\* readlines gives a list of lines, the other reads what they read.
Returned(op, num, res) ==
    LET got == IF op = "readlines" THEN Join(res.out) ELSE res.out
    IN  /\ SetRaw(res.raw)
        /\ rdbuf' = res.rdbuf
        /\ decoded' = res.decoded
        /\ decoder' = res.decoder
        /\ delivered' = delivered \o got
        /\ short' = (short \/ (op = "read" /\ res.raw.exc = "none"
                                            /\ Len(res.out) < num))
        /\ last' = [Call(op, num, got,
                         IF res.raw.exc = "none" THEN Len(res.out) ELSE -1,
                         res.raw.exc, res.raw.calls - calls)
                        EXCEPT !.lines = IF op = "readlines" THEN res.out ELSE <<>>]

Read(num) ==
    /\ stack # <<>>
    /\ Returned("read", num, StreamRead(num))
    /\ ref' = RefRead(num)
    /\ UNCHANGED <<script, req, error, stack, bufsize, closeCalled, source>>

ReadAll ==
    /\ stack # <<>>
    /\ Returned("readall", -1, StreamReadAll)
    /\ ref' = RefReadAll
    /\ UNCHANGED <<script, req, error, stack, bufsize, closeCalled, source>>

\* readline() on a text stream, which is also what next() on it does.
ReadLine ==
    /\ stack # <<>>
    /\ Top = "TextIOWrapper"
    /\ Returned("readline", -1, TextReadLine(Layers))
    /\ UNCHANGED <<script, req, error, stack, bufsize, closeCalled, ref, source>>

\* readlines() on a text stream, which is also what list(stream) gives.
ReadLines ==
    /\ stack # <<>>
    /\ Top = "TextIOWrapper"
    /\ Returned("readlines", -1, TextReadLines(Layers, <<>>))
    /\ UNCHANGED <<script, req, error, stack, bufsize, closeCalled, ref, source>>

Tell ==
    /\ stack # <<>>
    /\ LET res == StreamTell
       IN  last' = Call("tell", 0, <<>>, res.ret, res.exc, 0)
    /\ ref' = RefTell
    /\ UNCHANGED <<script, calls, iter, buffer, total, closed, req, error, stack,
                   bufsize, rdbuf, decoded, delivered, short, closeCalled, source,
                   decoder>>

\* close() on the object the caller holds: each layer closes the one under
\* it, down to the adapter; a layer already closed does nothing.
Close ==
    /\ stack # <<>>
    /\ SetRaw(RawClose(Raw))
    /\ closeCalled' = TRUE
    /\ last' = Call("close", 0, <<>>, 0, "none", 0)
    /\ ref' = RefClose
    /\ UNCHANGED <<script, req, error, stack, bufsize, rdbuf, decoded, delivered, short,
                   source, decoder>>

Next ==
    \/ \E num \in 0..MaxRead : Read(num)
    \/ Tell
    \/ Close

Spec == Init /\ [][Next]_vars

SpecOpen == InitOpen /\ [][Next]_vars

SpecLayers == InitLayers /\ [][Next]_vars

\* Text streams over a producer that yields the utf-8 encoding of a string
\* of plain letters, two-byte letters, "\n" and "\r", cut into chunks at
\* any places, empty chunks among them.
TextAlphabet == {Chr(97), Chr(233), LF, CR}

Strings == UNION {[1..n -> TextAlphabet] : n \in 0..TextChars}

\* The ways to cut n bytes in two, at any place, with an empty chunk in
\* between.
Cuts(n) == {<<k, 0, n - k>> : k \in 0..n}

TextRequests == [mode : {<<"r">>}, buffering : {-1}, encoding : {"utf-8"},
                 errors : {None}, newline : {None, "", "LF"}]

InitText ==
    /\ source \in Strings
    /\ OpenFrom(TextRequests, Cuts(Len(Encode(source))))
    /\ ref = NoRef

NextText ==
    \/ \E num \in 1..MaxRead : Read(num)
    \/ ReadAll
    \/ ReadLine
    \/ ReadLines

SpecText == InitText /\ [][NextText]_vars

NextPair ==
    \/ \E num \in 0..MaxRead : Read(num)
    \/ ReadAll
    \/ Tell
    \/ Close

SpecPair == InitPair /\ [][NextPair]_vars

\* ------------------------------------------------------------------ claims
\* What the producer emits before it first signals exhaustion: the chunks of
\* the next() calls from the c-th on, up to the first StopIteration.
RECURSIVE StreamFrom(_)
StreamFrom(c) ==
    LET item == NextItem(c)
    IN  IF item = STOP THEN <<>>
        ELSE IF item = ERR THEN StreamFrom(c + 1)
        ELSE Chunk(c, item) \o StreamFrom(c + 1)

Stream == StreamFrom(1)

\* The next() calls made during the last call of the caller.
LastPulls == (calls - last.pulls + 1)..calls

ReadOk == last.op = "read" /\ last.exc = "none"

\* C1: every read(num) that returns, returns the next min(num, remaining)
\* bytes of the producer's stream c1 || ... || cn; what has been delivered
\* is always a prefix of that stream, and it is the whole stream once a
\* read of positive length has returned nothing.
C1_Concatenation ==
    /\ Len(delivered) <= Len(Stream)
    /\ delivered = SubSeq(Stream, 1, Len(delivered))
    /\ ReadOk =>
         LET before == Len(delivered) - Len(last.out)
         IN  last.out = SubSeq(Stream, before + 1,
                               before + Min(last.num, Len(Stream) - before))
    /\ (ReadOk /\ last.num > 0 /\ last.out = <<>>) => delivered = Stream

\* A stream of at least four bytes with an empty chunk inside has been read
\* to its end by reads that cut across the chunk boundaries.
C1_Witness ==
    /\ ReadOk /\ last.num > 0 /\ last.out = <<>>
    /\ Len(delivered) >= 4
    /\ \E c \in 1..Len(script) : script[c] = 0 /\ c < calls
    /\ delivered = Stream

\* C2: on an open adapter total - len(buffer) is the number of bytes
\* delivered so far, and that is the value tell() returns.
C2_Position ==
    ~closed =>
        /\ total - Len(buffer) = Len(delivered)
        /\ (last.op = "tell" /\ last.exc = "none") => last.ret = Len(delivered)

\* tell() answered between reads, with bytes delivered and bytes pending.
C2_Witness ==
    /\ last.op = "tell" /\ last.exc = "none"
    /\ Len(delivered) > 0
    /\ Len(buffer) > 0
    /\ last.ret = Len(delivered)

\* C3: a read of positive length returns nothing only when the producer has
\* raised StopIteration and nothing is pending; by then every chunk that
\* precedes the StopIteration, those after empty chunks too, was delivered.
C3_ZeroChunk ==
    (ReadOk /\ last.num > 0 /\ last.out = <<>>) =>
        /\ iter = NoIter
        /\ buffer = <<>>
        /\ \E c \in 1..calls : NextItem(c) = STOP
        /\ \A c \in 1..calls :
             (\A d \in 1..c : NextItem(d) # STOP) =>
                 \A j \in 1..Len(Chunk(c, NextItem(c))) :
                     \E k \in 1..Len(delivered) : delivered[k] = Chunk(c, NextItem(c))[j]

\* The reads ran past an empty chunk, delivered the chunk after it, and
\* only then got the empty result.
C3_Witness ==
    /\ ReadOk /\ last.num > 0 /\ last.out = <<>>
    /\ \E c \in 1..Len(script), d \in 1..Len(script) :
         /\ c < d /\ d < calls
         /\ script[c] = 0 /\ script[d] > 0
         /\ \A e \in 1..d : script[e] >= 0
         /\ \E k \in 1..Len(delivered) : delivered[k] = Chunk(d, script[d])[1]

\* C4: once a read has come back short, every later read on the open
\* adapter returns no byte, raises nothing and asks the producer nothing.
C4_ExhaustionPermanent ==
    (last.op = "read" /\ last.afterShort /\ ~closed) =>
        /\ last.exc = "none"
        /\ last.out = <<>>
        /\ last.pulls = 0

\* A read of positive length after the short read, on a producer that would
\* yield a chunk if it were asked again.
C4_Witness ==
    /\ last.op = "read" /\ last.afterShort /\ ~closed /\ last.num > 0
    /\ calls < Len(script)
    /\ script[calls] = STOP
    /\ script[calls + 1] > 0

\* C6: a read during which the producer raises ends with that exception at
\* the raising next() call: nothing is pulled after it, the call is not
\* retried, no byte is returned; and a read raises a producer error only
\* when its last next() call raised it.
C6_ProducerError ==
    /\ (last.op = "read" /\ \E c \in LastPulls : NextItem(c) = ERR) =>
          /\ last.exc = "producer"
          /\ last.out = <<>>
          /\ last.ret = -1
          /\ NextItem(calls) = ERR
          /\ \A c \in LastPulls : c < calls => NextItem(c) # ERR
    /\ last.exc = "producer" => (last.pulls > 0 /\ NextItem(calls) = ERR)

\* The producer raised after a chunk was pulled in the same call, and has
\* more to give.
C6_Witness ==
    /\ last.op = "read" /\ last.exc = "producer"
    /\ last.pulls >= 2
    /\ calls < Len(script)
    /\ script[calls + 1] >= 0

\* C5: once close() has been called the stream stays closed with the
\* producer handle and the buffer released; every read (of any length) and
\* every tell() made on the closed stream raises the closed-stream error,
\* returns nothing and asks the producer nothing; a further close() raises
\* nothing and leaves all that as it was.
C5_ClosedAbsorbing ==
    /\ closeCalled => (closed /\ iter = NoIter /\ buffer = NoBuffer)
    /\ (last.wasClosed /\ last.op \in {"read", "tell"}) =>
          /\ last.exc = "closed"
          /\ last.out = <<>>
          /\ last.pulls = 0
    /\ (last.wasClosed /\ last.op = "close") => last.exc = "none"
    /\ last.wasClosed => closed

\* A buffered stream closed with bytes read ahead and chunks left in the
\* producer refuses a read of positive length.
C5_Witness ==
    /\ last.op = "read" /\ last.wasClosed /\ last.num > 0
    /\ last.exc = "closed"
    /\ Top = "BufferedReader"
    /\ Len(delivered) > 0
    /\ Len(rdbuf) > 0

Unset(q) == q.encoding = None /\ q.errors = None /\ q.newline = None

\* The accepted requests, as the documentation of the mode string puts it.
Accepted(q) ==
    /\ \A i, j \in 1..Len(q.mode) : i # j => q.mode[i] # q.mode[j]
    /\ \A i \in 1..Len(q.mode) : q.mode[i] \in {"r", "t", "b"}
    /\ \E i \in 1..Len(q.mode) : q.mode[i] = "r"
    /\ ~(\E i, j \in 1..Len(q.mode) : q.mode[i] = "t" /\ q.mode[j] = "b")
    /\ (\E i \in 1..Len(q.mode) : q.mode[i] = "b") => Unset(q)
    /\ (\A i \in 1..Len(q.mode) : q.mode[i] # "b") => q.buffering # 0

\* C7: open_iterable returns a stream exactly for the accepted requests and
\* raises a configuration error for every other one, among them the modes
\* "", "abc", "rtb", a mode without r, a repeated character, and "r" or
\* "rt" with buffering 0.
C7_Validation ==
    last.op = "open" =>
        /\ (error = "none") <=> Accepted(req)
        /\ (error = "none") <=> (stack # <<>>)
        /\ req.mode \in {<<>>, <<"a", "b", "c">>, <<"r", "t", "b">>, <<"t">>, <<"b">>,
                         <<"r", "r">>, <<"r", "b", "b">>} => error # "none"
        /\ (req.mode \in {<<"r">>, <<"r", "t">>} /\ req.buffering = 0) => error # "none"
        /\ (req.mode \in {<<"r">>, <<"r", "t">>} /\ req.buffering # 0) => error = "none"
        /\ (req.mode = <<"r", "b">> /\ Unset(req)) => error = "none"

\* Mode "r" alone, text by default, with a block size and text arguments.
C7_Witness ==
    /\ last.op = "open" /\ error = "none"
    /\ req.mode = <<"r">> /\ req.buffering = 1
    /\ req.encoding # None /\ req.newline # None

\* The rules in the order of the documentation: which of them a request
\* violates.
Violates(q) ==
    LET m == {q.mode[i] : i \in 1..Len(q.mode)}
        isText == "t" \in m \/ ("r" \in m /\ "b" \notin m)
    IN  [k \in 1..7 |->
           CASE k = 1 -> (m \ {"r", "t", "b"} # {} \/ Cardinality(m) < Len(q.mode))
             [] k = 2 -> "r" \notin m
             [] k = 3 -> ("t" \in m /\ "b" \in m)
             [] k = 4 -> ("b" \in m /\ q.encoding # None)
             [] k = 5 -> ("b" \in m /\ q.errors # None)
             [] k = 6 -> ("b" \in m /\ q.newline # None)
             [] k = 7 -> (isText /\ q.buffering = 0)]

RuleOf ==
    [e \in {"invalid mode", "Must specify read mode",
            "can't have text and binary mode at once",
            "binary mode doesn't take an encoding argument",
            "binary mode doesn't take an errors argument",
            "binary mode doesn't take a newline argument",
            "can't have unbuffered text I/O"} |->
       CASE e = "invalid mode" -> 1
         [] e = "Must specify read mode" -> 2
         [] e = "can't have text and binary mode at once" -> 3
         [] e = "binary mode doesn't take an encoding argument" -> 4
         [] e = "binary mode doesn't take an errors argument" -> 5
         [] e = "binary mode doesn't take a newline argument" -> 6
         [] e = "can't have unbuffered text I/O" -> 7]

\* C8: the error open_iterable raises names the first rule, in the order
\* invalid mode, no read mode, text and binary, binary with encoding, with
\* errors, with newline, unbuffered text, that the request violates.
C8_FirstRuleWins ==
    last.op = "open" =>
        /\ (\E k \in 1..7 : Violates(req)[k]) => error \in DOMAIN RuleOf
        /\ error # "none" =>
              /\ error \in DOMAIN RuleOf
              /\ Violates(req)[RuleOf[error]]
              /\ \A k \in 1..7 : k < RuleOf[error] => ~Violates(req)[k]
        /\ req.mode = <<"t", "b">> => error = "Must specify read mode"
        /\ req.mode = <<"r", "b", "b">> => error = "invalid mode"

\* Mode "tb" with buffering 0 and an encoding violates three later rules
\* and is reported as lacking the read mode.
C8_Witness ==
    /\ last.op = "open"
    /\ req.mode = <<"t", "b">> /\ req.buffering = 0 /\ req.encoding # None
    /\ error = "Must specify read mode"
    /\ Cardinality({k \in 1..7 : Violates(req)[k]}) >= 3

\* C9: the classes of the returned object depend on binary and buffering
\* alone: the bare adapter for binary with buffering 0, a BufferedReader
\* over it for binary with any other buffering, a TextIOWrapper over a
\* BufferedReader over it for text; the block size is the buffering given,
\* or the default for a negative one; the adapter is the innermost layer
\* and occurs once.
C9_LayerSelection ==
    (last.op = "open" /\ error = "none") =>
        LET isBinary == \E i \in 1..Len(req.mode) : req.mode[i] = "b"
        IN  /\ (isBinary /\ req.buffering = 0) => stack = <<"RawIterableReader">>
            /\ (isBinary /\ req.buffering # 0) =>
                  stack = <<"RawIterableReader", "BufferedReader">>
            /\ ~isBinary =>
                  /\ stack = <<"RawIterableReader", "BufferedReader", "TextIOWrapper">>
                  /\ req.buffering # 0
            /\ Len(stack) >= 2 =>
                  bufsize = (IF req.buffering < 0 THEN DEFAULT_BUFFER_SIZE ELSE req.buffering)
            /\ stack[1] = "RawIterableReader"
            /\ \A i \in 2..Len(stack) : stack[i] # "RawIterableReader"
            /\ iter = "iterator" /\ ~closed

\* Binary mode with the default buffering: a BufferedReader of the default
\* block size.
C9_Witness ==
    /\ last.op = "open" /\ error = "none"
    /\ req.mode = <<"r", "b">> /\ req.buffering = -1
    /\ stack = <<"RawIterableReader", "BufferedReader">>
    /\ bufsize = DEFAULT_BUFFER_SIZE

\* A read of positive length has been made on the open stream.
PulledBy == \E k \in 1..MaxRead : last.op = "read" /\ last.num = k /\ ~last.wasClosed

\* C10: open_iterable asks the producer for nothing, whether it returns a
\* stream or raises, and when it raises no adapter has been built over the
\* producer; the producer is first asked during a read of positive length
\* on the open stream, never by a read of length 0, a tell() or a close().
C10_NoPullAtOpen ==
    /\ last.op = "open" => (calls = 0 /\ last.pulls = 0)
    /\ error # "none" => (calls = 0 /\ iter = NoIter /\ buffer = NoBuffer /\ stack = <<>>)
    /\ last.pulls > 0 => PulledBy
    /\ PulledBy => calls > 0

\* A read of positive length on a text stream has made the first pulls,
\* up to the producer's StopIteration.
C10_Witness ==
    /\ last.op = "read" /\ last.num > 0 /\ last.exc = "none"
    /\ Top = "TextIOWrapper"
    /\ last.pulls = calls
    /\ calls = Len(script) + 1
    /\ Len(script) > 0

\* The chunks returned by the next() calls a + 1 .. b, in the order of the
\* calls; a call that raised contributes nothing.
RECURSIVE PulledBetween(_, _)
PulledBetween(a, b) ==
    IF b <= a THEN <<>>
    ELSE PulledBetween(a, b - 1)
         \o (IF NextItem(b) >= 0 THEN Chunk(b, NextItem(b)) ELSE <<>>)

\* C14: on an open adapter the bytes delivered followed by the bytes
\* pending are the chunks pulled so far, whole and in the producer's order;
\* a read takes what it returns off the front of the pending bytes and puts
\* each chunk it pulls, whole, at their tail.
C14_Conservation ==
    ~closed =>
        /\ delivered \o buffer = PulledBetween(0, calls)
        /\ total = Len(PulledBetween(0, calls))
        /\ (last.op = "read" /\ ~last.wasClosed) =>
              last.pre.raw.buffer \o PulledBetween(calls - last.pulls, calls)
                  = last.out \o buffer

\* A read found bytes pending, pulled two chunks or more behind them,
\* returned some bytes and left others pending.
C14_Witness ==
    /\ ReadOk /\ ~closed
    /\ last.pre.raw.buffer # <<>>
    /\ Len(PulledBetween(calls - last.pulls, calls)) >= 2
    /\ last.pulls >= 2
    /\ last.out # <<>>
    /\ buffer # <<>>

\* The producer raised an error in a call that came before the last one.
ErroredBefore == \E c \in 1..(calls - last.pulls) : NextItem(c) = ERR

\* C15 as stated: once the producer has raised an error, no later read on
\* the open adapter asks it for another chunk.
C15_NoPullAfterError ==
    (last.op = "read" /\ ~closed /\ ErroredBefore) => last.pulls = 0

\* C15, amended: the producer's error ends the pulls of that call only.
\* The adapter keeps its iterator, pulls nothing outside a read, and a later
\* read on the open adapter asks the producer again exactly when fewer bytes
\* are pending than it was asked for and no StopIteration has been seen.
C15_PullResumesAfterError ==
    /\ last.exc = "producer" =>
          /\ iter = "iterator" /\ ~closed
          /\ NextItem(calls) = ERR
          /\ \A c \in LastPulls : c # calls => NextItem(c) >= 0
    /\ (ErroredBefore /\ last.op = "read" /\ ~last.wasClosed) =>
          (last.pulls > 0 <=>
              (last.pre.raw.iter # NoIter /\ Len(last.pre.raw.buffer) < last.num))
    /\ (ErroredBefore /\ last.op # "read") => last.pulls = 0

\* After a read that the producer's error ended, a later read pulled a
\* chunk and returned bytes.
C15_Witness ==
    /\ ErroredBefore
    /\ ReadOk /\ ~closed
    /\ last.pulls > 0
    /\ last.out # <<>>

\* C16 as stated: until close() the adapter holds both its iterator and its
\* buffer, after the producer's StopIteration too.
C16_HeldUntilClose ==
    ~closed => (iter = "iterator" /\ buffer # NoBuffer)

\* C16, amended: the buffer is held until close() and dropped by it; the
\* iterator is dropped by close() or, before it, by the read that meets
\* the producer's StopIteration, and by nothing else.
C16_ReleasePoints ==
    /\ closed <=> closeCalled
    /\ ~closed =>
          /\ buffer # NoBuffer
          /\ iter = NoIter <=> \E c \in 1..calls : NextItem(c) = STOP
    /\ closed => (iter = NoIter /\ buffer = NoBuffer)

\* The read that met StopIteration has returned the last bytes and dropped
\* the iterator; the adapter is open and still holds its (empty) buffer.
C16_Witness ==
    /\ ~closed /\ ~closeCalled
    /\ ReadOk /\ last.pulls > 1 /\ last.out # <<>>
    /\ last.pre.raw.iter = "iterator"
    /\ iter = NoIter
    /\ buffer = <<>>

\* C17: read(0) on an open stream returns nothing and raises nothing, asks
\* the producer nothing, and leaves the adapter (iterator, buffer, total,
\* hence tell()) and the layers over it as they were; it is not counted as
\* a short read, and the reads after it still reach the end of the stream.
C17_ZeroLengthRead ==
    /\ (last.op = "read" /\ last.num = 0 /\ ~last.wasClosed) =>
          /\ last.exc = "none" /\ last.out = <<>> /\ last.ret = 0
          /\ last.pulls = 0
          /\ Layers = last.pre
          /\ TellValue(Raw) = TellValue(last.pre.raw)
          /\ short = last.afterShort
    /\ (ReadOk /\ last.num > 0 /\ last.out = <<>>
          /\ \A c \in 1..Len(script) : script[c] # ERR) =>
          Len(delivered) = Len(Stream)

\* read(0) on a stream that has delivered a byte, holds another one
\* pending and has not met the end of its producer.
C17_Witness ==
    /\ last.op = "read" /\ last.num = 0 /\ ~closed
    /\ delivered # <<>>
    /\ iter = "iterator"
    /\ buffer # <<>>
    /\ last.out = <<>>

\* The last next() call so far that returned a chunk, 0 if none did.
LastChunkCall ==
    LET cs == {c \in 1..calls : NextItem(c) >= 0}
    IN  IF cs = {} THEN 0 ELSE CHOOSE c \in cs : \A d \in cs : d <= c

\* The chunks pulled so far are the shortest run of the producer's chunks
\* that covers the bytes delivered: they cover them, and without the last
\* of them they would not.
ShortestCover ==
    /\ Len(PulledBetween(0, calls)) >= Len(delivered)
    /\ LastChunkCall > 0 =>
          Len(PulledBetween(0, LastChunkCall - 1)) < Len(delivered)

\* No pull outside a read, none by a read the pending bytes can serve, and
\* each pull made while fewer bytes were pending than the read asked for.
PullsOnDemand ==
    /\ last.op # "read" => last.pulls = 0
    /\ (last.op = "read" /\ ~last.wasClosed) =>
          /\ Len(last.pre.raw.buffer) >= last.num => last.pulls = 0
          /\ \A c \in LastPulls :
                Len(last.pre.raw.buffer)
                    + Len(PulledBetween(calls - last.pulls, c - 1)) < last.num

\* C18 as stated: pulls on demand only, hence after any read that returned
\* the num bytes it was asked for the chunks pulled are the shortest cover
\* of the bytes delivered.
C18_ShortestCoverAlways ==
    /\ PullsOnDemand
    /\ (ReadOk /\ Len(last.out) = last.num) => ShortestCover

\* C18, amended: pulls on demand only, hence after any read that pulled a
\* chunk and returned the num bytes it was asked for the chunks pulled are
\* the shortest cover of the bytes delivered.
C18_NoPrefetch ==
    /\ PullsOnDemand
    /\ (ReadOk /\ last.pulls > 0 /\ Len(last.out) = last.num) => ShortestCover

\* A read has pulled two chunks, returned all it was asked for and left a
\* part of the second chunk pending.
C18_Witness ==
    /\ ReadOk /\ last.pulls >= 2 /\ Len(last.out) = last.num
    /\ buffer # <<>>
    /\ delivered # last.out
    /\ ShortestCover

\* C20: a read that the producer's error ends returns nothing and leaves
\* the adapter open, with the chunks it pulled before the error appended
\* in order to what was pending and counted in total, and tell() as it was
\* before the call; a later read that returns takes its bytes from the
\* front of what was kept, and nothing is lost or delivered twice.
C20_FailedReadKeepsBytes ==
    /\ last.exc = "producer" =>
          /\ last.op = "read" /\ last.out = <<>>
          /\ ~closed /\ tell(Raw).exc = "none"
          /\ buffer = last.pre.raw.buffer
                        \o PulledBetween(calls - last.pulls, calls)
          /\ total = last.pre.raw.total
                        + Len(PulledBetween(calls - last.pulls, calls))
          /\ TellValue(Raw) = TellValue(last.pre.raw)
          /\ delivered \o buffer = PulledBetween(0, calls)
    /\ (ReadOk /\ ErroredBefore /\ ~closed) =>
          LET kept == last.pre.raw.buffer
              all  == kept \o PulledBetween(calls - last.pulls, calls)
          IN  /\ last.out = SubSeq(all, 1, Len(last.out))
              /\ Len(last.out) >= Min(last.num, Len(kept))
              /\ delivered \o buffer = PulledBetween(0, calls)

\* A read has failed on the producer's error after it had pulled a chunk
\* behind bytes already pending; earlier reads had delivered bytes.
C20_Witness ==
    /\ last.op = "read" /\ last.exc = "producer"
    /\ last.pulls >= 2
    /\ last.pre.raw.buffer # <<>>
    /\ Len(buffer) > Len(last.pre.raw.buffer)
    /\ delivered # <<>>

\* ------------------------------------------- readinto, one step at a time
\* A caller that reads until a read returns nothing (or raises), with the
\* pull loop of readinto taken one next() call at a time.  last.op tells
\* where the call stands: "reading" at the test of the while loop,
\* "returning" past the loop, "read" once it has returned or raised.
LoopDone == last.op = "read" /\ (last.exc # "none" \/ last.out = <<>>)

InCall == last.op \in {"reading", "returning"}

\* read(num), up to the first test of the loop: _checkClosed, num = len(b),
\* if self._iter is not None.
LoopCall(num) ==
    /\ last.op \in {"init", "read"}
    /\ ~LoopDone
    /\ last' = Call(IF closed THEN "read"
                    ELSE IF iter # NoIter THEN "reading" ELSE "returning",
                    num, <<>>, -1, IF closed THEN "closed" ELSE "none", 0)
    /\ UNCHANGED <<script, calls, iter, buffer, total, closed, req, error, stack,
                   bufsize, rdbuf, decoded, delivered, short, closeCalled, ref,
                   source, decoder>>

\* One turn of the while loop: the test holds, next() is called, and its
\* outcome is handled.
LoopPull ==
    /\ last.op = "reading"
    /\ LoopCond(Raw, last.num)
    /\ LET c == calls + 1
           item == NextItem(c)
           r1 == [Raw EXCEPT !.calls = c]
       IN  /\ SetRaw(IF item = STOP THEN OnStop(r1)
                     ELSE IF item = ERR THEN r1
                     ELSE OnChunk(r1, Chunk(c, item)))
           /\ last' = [last EXCEPT !.pulls = @ + 1,
                                   !.op = IF item = STOP THEN "returning"
                                          ELSE IF item = ERR THEN "read"
                                          ELSE "reading",
                                   !.exc = IF item = ERR THEN "producer" ELSE @]
    /\ UNCHANGED <<script, req, error, stack, bufsize, rdbuf, decoded,
                   delivered, short, closeCalled, ref, source, decoder>>

\* The test of the while loop fails, or the loop was left or skipped: the
\* tail of readinto hands the bytes over and the call returns.
LoopReturn ==
    /\ \/ last.op = "returning"
       \/ last.op = "reading" /\ ~LoopCond(Raw, last.num)
    /\ LET res == Deliver(Raw, last.num)
       IN  /\ SetRaw(res.raw)
           /\ delivered' = delivered \o res.out
           /\ short' = (short \/ Len(res.out) < last.num)
           /\ last' = [last EXCEPT !.op = "read", !.out = res.out,
                                   !.ret = Len(res.out)]
    /\ UNCHANGED <<script, req, error, stack, bufsize, rdbuf, decoded, closeCalled,
                   ref, source, decoder>>

NextLoop ==
    \/ \E num \in 1..MaxRead : LoopCall(num)
    \/ LoopPull
    \/ LoopReturn

\* The caller and the adapter run in one thread: whichever step is next is
\* taken.
SpecLoop == Init /\ [][NextLoop]_vars /\ WF_vars(NextLoop)

\* The next() call at which the producer first raises StopIteration.
FirstStop == CHOOSE c \in 1..(Len(script) + 1) :
                 /\ NextItem(c) = STOP
                 /\ \A d \in 1..(c - 1) : NextItem(d) # STOP

\* A call that has returned did what readinto does in one piece.
LoopAgrees ==
    (last.op = "read" /\ ~last.wasClosed) =>
        LET res == readinto(last.pre.raw, last.num)
        IN  /\ [Raw EXCEPT !.exc = last.exc] = res.raw
            /\ last.out = res.out

\* C19: every read that was called returns or raises; the caller's loop of
\* positive-length reads comes to its end; and the producer is asked at
\* most once per chunk (or error) before its StopIteration and once for the
\* StopIteration itself, that is at most (number of chunks + 1) times when
\* it yields its chunks and then stops.
C19_Termination ==
    /\ [](calls <= FirstStop)
    /\ [](calls <= Len(script) + 1)
    /\ [](LoopAgrees)
    /\ InCall ~> (last.op = "read")
    /\ <>LoopDone

\* The loop has ended on an empty read after several reads, and the
\* producer, which yielded as many chunks as the bounds allow and no
\* error, was asked exactly (number of chunks + 1) times.
C19_Witness ==
    /\ LoopDone /\ last.exc = "none"
    /\ Len(script) = MaxItems
    /\ \A c \in 1..Len(script) : script[c] >= 0
    /\ calls = Len(script) + 1
    /\ Len(delivered) > MaxRead
    /\ delivered = Stream

\* The request passes the checks and makes the construction of a layer
\* raise.
LayerFails(q) ==
    /\ Validate(q) = "none"
    /\ \/ q.buffering \in {BadInt, TooBig}
       \/ text(q) /\ (q.encoding = "bogus" \/ q.newline = "x")

\* C11: when open_iterable raises after it has built the adapter (on the
\* way to the buffering layer, or in the text layer built over it), the
\* adapter it built is closed, with its iterator and its buffer dropped,
\* the producer was never asked, and the caller gets no object; whatever
\* open_iterable raises, no open adapter holding the producer is left.
C11_LayerFailureCloses ==
    /\ last.op = "open" =>
          /\ LayerFails(req) <=> error \in LayerErrors
          /\ error \in LayerErrors =>
                /\ closed /\ iter = NoIter /\ buffer = NoBuffer
                /\ calls = 0 /\ stack = <<>>
          /\ error # "none" => (iter = NoIter /\ buffer = NoBuffer /\ stack = <<>>)
    /\ error # "none" => (iter = NoIter /\ buffer = NoBuffer /\ calls = 0)

\* The text layer was refused an unknown encoding after the buffering
\* layer had been built over the adapter, and the adapter is closed.
C11_Witness ==
    /\ last.op = "open" /\ error = "LookupError"
    /\ req.buffering > 0 /\ req.buffering # TooBig
    /\ text(req)
    /\ closed /\ iter = NoIter /\ buffer = NoBuffer

\* C12: a binary stream with a buffer of the default or of any given size
\* and an unbuffered adapter, over identical producers of finitely many
\* chunks and given the same read(num), read() and tell() calls, return
\* the same bytes and the same positions call after call, and raise alike.
C12_BufferingUnobservable ==
    ref.on =>
        /\ last.op \in {"read", "readall"} =>
              (last.out = ref.out /\ last.exc = ref.exc)
        /\ last.op = "tell" => (last.ret = ref.ret /\ last.exc = ref.exc)
        /\ StreamTell = tell(ref.raw)

\* After reads that cut across the chunks, with the buffered stream ahead
\* of the caller by bytes the unbuffered adapter has not pulled yet, a
\* read() has returned the rest of the stream on both.
C12_Witness ==
    /\ ref.on /\ Top = "BufferedReader"
    /\ last.op = "readall" /\ last.exc = "none"
    /\ Len(last.out) >= 2
    /\ Len(delivered) > Len(last.out) + 1
    /\ last.pre.rdbuf # <<>>
    /\ last.out = ref.out
    /\ delivered = Stream

\* s from its i-th character on, with the "\r" of every "\r\n" dropped
\* and every other "\r" turned into "\n".
RECURSIVE Normal(_, _)
Normal(s, i) ==
    IF i > Len(s) THEN <<>>
    ELSE IF s[i] = CR /\ i < Len(s) /\ s[i + 1] = LF THEN Normal(s, i + 1)
    ELSE <<IF s[i] = CR THEN LF ELSE s[i]>> \o Normal(s, i + 1)

\* What the newline argument makes of the string the producer encodes.
Expected == IF req.newline = None THEN Normal(source, 1) ELSE source

\* The i-th character of t is the last of a line: a "\n", or with newline
\* "" a "\r" that no "\n" follows.
EndsLine(t, i) ==
    \/ t[i] = LF
    \/ req.newline = "" /\ t[i] = CR /\ ~(i < Len(t) /\ t[i + 1] = LF)

\* t cut after every line ending, the endings kept.
RECURSIVE SplitLines(_)
SplitLines(t) ==
    IF t = <<>> THEN <<>>
    ELSE LET ends == {i \in 1..Len(t) : EndsLine(t, i)} \cup {Len(t)}
             k == CHOOSE i \in ends : \A j \in ends : i <= j
         IN  <<SubSeq(t, 1, k)>> \o SplitLines(SubSeq(t, k + 1, Len(t)))

\* The last call has met the end of the stream.
AtEnd ==
    /\ last.exc = "none"
    /\ \/ last.op = "read" /\ Len(last.out) < last.num
       \/ last.op = "readline" /\ last.out = <<>>
       \/ last.op \in {"readall", "readlines"}

\* C13 as stated: read to its end, by reads of any sizes or line by line,
\* the text stream gives back the string the producer's bytes encode,
\* character for character.
C13_ExactRoundTrip ==
    (source # NoSource /\ AtEnd) => delivered = source

\* C13, amended: however the bytes are cut into chunks, the text stream
\* gives back the string they encode as the newline argument has it: as
\* it is with newline "" or "\n", and with "\r\n" and "\r" turned into
\* "\n" with newline None.  Each read(n) returns the next n characters of
\* it, each readline() (or next()) its next line with the line ending
\* kept, and readlines() (or list()) the lines that are left, which join
\* to what was left.
C13_TextRoundTrip ==
    source # NoSource =>
        LET before == Len(delivered) - Len(last.out)
            rest == SubSeq(Expected, before + 1, Len(Expected))
        IN  /\ last.exc = "none"
            /\ Len(delivered) <= Len(Expected)
            /\ delivered = SubSeq(Expected, 1, Len(delivered))
            /\ AtEnd => delivered = Expected
            /\ (\A i \in 1..Len(source) : source[i] # CR) => Expected = source
            /\ last.op = "read" => last.out = SubSeq(rest, 1, Min(last.num, Len(rest)))
            /\ last.op = "readall" => last.out = rest
            /\ last.op = "readline" =>
                  last.out = (IF rest = <<>> THEN <<>> ELSE SplitLines(rest)[1])
            /\ last.op = "readlines" =>
                  /\ last.lines = SplitLines(rest)
                  /\ Join(last.lines) = rest
                  /\ \A k \in 1..(Len(last.lines) - 1) :
                        EndsLine(last.lines[k], Len(last.lines[k]))

\* The producer's bytes were cut between the "\r" and the "\n" of a line
\* ending, universal newlines are translated, and readlines() has returned
\* two lines or more that join to the translated string, not to the
\* string itself.
C13_Witness ==
    /\ source # NoSource /\ req.newline = None
    /\ last.op = "readlines" /\ Len(last.lines) >= 2
    /\ \E i \in 1..(Len(source) - 1) :
          /\ source[i] = CR /\ source[i + 1] = LF
          /\ script[1] = Len(Encode(SubSeq(source, 1, i)))
    /\ \E i \in 1..Len(source) : source[i].chr > 127
    /\ delivered = Expected
    /\ delivered # source

====
